---- MODULE Spec2Model ----
(***************************************************************************)
(* A model of setup.mjs, the one-shot script that "electronizes" a Vite +  *)
(* React project: it moves src/* to src/ui/, writes the Electron entry     *)
(* points and build configuration, patches index.html and package.json,    *)
(* creates placeholder icons and optionally runs npm install.              *)
(*                                                                         *)
(* The file system is the state.  A path is a sequence of name components  *)
(* (<<"src", "ui", "main.tsx">>); fs maps every existing regular file to   *)
(* its content and dirs is the set of existing directories.                *)
(*                                                                         *)
(* File contents:                                                          *)
(*   - a generated text artifact or a user's text: a string naming it;     *)
(*   - index.html: a sequence of tokens (see the Anchor section);          *)
(*   - package.json: a record [fmt, obj], the formatting of the text and   *)
(*     the object JSON.parse yields from it.                               *)
(***************************************************************************)
EXTENDS Integers, Sequences, FiniteSets, TLC

VARIABLES
    fs,       \* existing regular files: path -> content
    dirs,     \* existing directories: set of paths
    pc,       \* position of the process in main (or of the driver in a unit specification)
    FORCE,    \* ARGV.has("--force") of the current run
    DO_INSTALL, \* ARGV.has("--install") of the current run
    runs,     \* number of runs started so far
    exitCode, \* exit status of the last finished run; -1 while none has finished
    fs0,      \* fs when the current run started
    dirs0,    \* dirs when the current run started
    fsPrev,   \* fs before the last operation
    dirsPrev, \* dirs before the last operation
    last,     \* what the last operation was and what it reported
    reports,  \* the steps of the current run that executed, each with what it
              \* reported: set of <<step, report>>
    edits,    \* number of edits the user made to the tree (unit specifications)
    prev      \* FORCE and exit status of the run before the current one

vars == <<fs, dirs, pc, FORCE, DO_INSTALL, runs, exitCode, fs0, dirs0,
          fsPrev, dirsPrev, last, reports, edits, prev>>

(***************************************************************************)
(* Bounds of the model.                                                    *)
(***************************************************************************)
\* number of runs of the tool in one behaviour
MaxRuns == 2
\* in how many respects the tree before the first run differs from a fresh
\* Vite + React project (see Init)
MaxDeviations == 1
\* number of user edits of the tree in a unit specification
MaxEdits == 2
\* number of calls of the function under test in a unit specification
MaxCalls == 3
\* number of module script tags in an index.html before the first patch
MaxTags == 2

(***************************************************************************)
(* Paths (setup.mjs, "Paths").  ROOT is the empty prefix.                  *)
(***************************************************************************)
SRC == <<"src">>
UI == <<"src", "ui">>
ELECTRON_DIR == <<"src", "electron">>
INDEX_HTML == <<"index.html">>
PACKAGE_JSON == <<"package.json">>
TSCONFIG_ELECTRON == <<"tsconfig.electron.json">>
VITE_ELECTRON == <<"vite.electron.config.ts">>
VITE_RENDERER == <<"vite.renderer.config.ts">>
ELECTRON_BUILDER_YML == <<"electron-builder.yml">>
MAIN_TS == ELECTRON_DIR \o <<"main.ts">>
PRELOAD_TS == ELECTRON_DIR \o <<"preload.ts">>
PUB == <<"public">>

\* `${p}.bak-electronize`
Bak(p) == [p EXCEPT ![Len(p)] = @ \o ".bak-electronize"]

\* path.dirname
Dirname(p) == SubSeq(p, 1, Len(p) - 1)

IsPrefix(d, p) == Len(d) <= Len(p) /\ SubSeq(p, 1, Len(d)) = d

\* d itself and every ancestor of it, the root excluded (mkdir recursive)
WithAncestors(d) == { SubSeq(d, 1, n) : n \in 1..Len(d) }

(***************************************************************************)
(* exists, ensureDir                                                       *)
(***************************************************************************)
exists(fsys, ds, p) == p \in DOMAIN fsys \/ p \in ds

ensureDir(fsys, ds, p) == IF exists(fsys, ds, p) THEN ds ELSE ds \cup WithAncestors(p)

\* fs.writeFile on an existing directory tree
WriteFile(fsys, p, content) ==
    [q \in DOMAIN fsys \cup {p} |-> IF q = p THEN content ELSE fsys[q]]

RemoveFiles(fsys, gone) == [q \in DOMAIN fsys \ gone |-> fsys[q]]

(***************************************************************************)
(* safeWrite(filePath, content, {force}).                                  *)
(* copyOk: whether fs.copyFile to the backup path succeeds; its failure is *)
(* swallowed by .catch and leaves the backup path as it was.  mkdir and    *)
(* writeFile are taken to succeed.                                         *)
(* Result: the file system after the call and what the call did:           *)
(*   ret "unchanged" (returned false) or "wrote" (returned true).          *)
(***************************************************************************)
\* a variant that overwrites first and copies to the backup path afterwards
safeWriteBackupAfterWrite(fsys, ds, p, content, force, copyOk) ==
    LET existed == p \in DOMAIN fsys
        same == existed /\ ~force /\ fsys[p] = content
        doBackup == existed /\ ~force /\ ~same /\ copyOk
        fs1 == WriteFile(fsys, p, content)
    IN  IF same
        THEN [fs |-> fsys, dirs |-> ds, ret |-> "unchanged"]
        ELSE [fs |-> IF doBackup THEN WriteFile(fs1, Bak(p), fs1[p]) ELSE fs1,
              dirs |-> ensureDir(fsys, ds, Dirname(p)), ret |-> "wrote"]

safeWrite(fsys, ds, p, content, force, copyOk) ==
    LET existed == p \in DOMAIN fsys
        same == existed /\ ~force /\ fsys[p] = content
        \* the backup branch: the file exists, the write is not forced, contents differ
        doBackup == existed /\ ~force /\ ~same /\ copyOk
        fs1 == IF doBackup THEN WriteFile(fsys, Bak(p), fsys[p]) ELSE fsys
        ds1 == ensureDir(fs1, ds, Dirname(p))
    IN  IF same
        THEN [fs |-> fsys, dirs |-> ds, ret |-> "unchanged"]
        ELSE [fs |-> WriteFile(fs1, p, content), dirs |-> ds1, ret |-> "wrote"]

(***************************************************************************)
(* Step 1: moveSrcToUi.                                                    *)
(* outcome[name] says how the move of one child of src/ goes:              *)
(*   "rename"  fs.rename succeeds;                                         *)
(*   "copy"    fs.rename fails, fs.cp and fs.rm succeed;                   *)
(*   "cpfail"  fs.rename fails and fs.cp throws (nothing copied);          *)
(*   "rmfail"  fs.rename fails, fs.cp succeeds and fs.rm throws (nothing   *)
(*             removed).                                                   *)
(***************************************************************************)
Outcomes == {"rename", "copy", "cpfail", "rmfail"}

\* fs.readdir: the names of the immediate children of directory d
Children(fsys, ds, d) ==
    { q[Len(d) + 1] : q \in { r \in DOMAIN fsys \cup ds : IsPrefix(d, r) /\ Len(r) > Len(d) } }

Rebase(from, to, q) == to \o SubSeq(q, Len(from) + 1, Len(q))

\* the tree at `from` is also at `to` afterwards
CopyTree(fsys, from, to) ==
    LET under == { q \in DOMAIN fsys : IsPrefix(from, q) }
        new == { Rebase(from, to, q) : q \in under }
    IN  [q \in DOMAIN fsys \cup new |->
            IF q \in new
            THEN fsys[from \o SubSeq(q, Len(to) + 1, Len(q))]
            ELSE fsys[q]]

CopyDirs(ds, from, to) == ds \cup { Rebase(from, to, q) : q \in { r \in ds : IsPrefix(from, r) } }

RemoveTree(fsys, from) == RemoveFiles(fsys, { q \in DOMAIN fsys : IsPrefix(from, q) })

RemoveDirs(ds, from) == { q \in ds : ~IsPrefix(from, q) }

\* a variant whose fallback removes the original without having copied it
MoveItemRemoveOnly(fsys, ds, name, how) ==
    LET from == SRC \o <<name>>
        to == UI \o <<name>>
    IN  CASE how = "rename" ->
                [fs |-> RemoveTree(CopyTree(fsys, from, to), from),
                 dirs |-> RemoveDirs(CopyDirs(ds, from, to), from), threw |-> FALSE]
          [] how = "copy" ->
                [fs |-> RemoveTree(fsys, from), dirs |-> RemoveDirs(ds, from), threw |-> FALSE]
          [] OTHER -> [fs |-> fsys, dirs |-> ds, threw |-> TRUE]

\* one iteration of the for loop of moveSrcToUi
MoveItem(fsys, ds, name, how) ==
    LET from == SRC \o <<name>>
        to == UI \o <<name>>
    IN  CASE how \in {"rename", "copy"} ->
                [fs |-> RemoveTree(CopyTree(fsys, from, to), from),
                 dirs |-> RemoveDirs(CopyDirs(ds, from, to), from), threw |-> FALSE]
          [] how = "rmfail" ->
                [fs |-> CopyTree(fsys, from, to), dirs |-> CopyDirs(ds, from, to), threw |-> TRUE]
          [] OTHER -> [fs |-> fsys, dirs |-> ds, threw |-> TRUE]

\* the for loop over items, in readdir order (an arbitrary fixed order here)
RECURSIVE MoveItems(_, _, _, _)
MoveItems(fsys, ds, items, outcome) ==
    IF items = {} THEN [fs |-> fsys, dirs |-> ds, threw |-> FALSE]
    ELSE LET name == CHOOSE n \in items : TRUE
         IN  IF name = "electron"
             THEN MoveItems(fsys, ds, items \ {name}, outcome)
             ELSE LET r == MoveItem(fsys, ds, name, outcome[name])
                  IN  IF r.threw THEN r
                      ELSE MoveItems(r.fs, r.dirs, items \ {name}, outcome)

\* ret: "fatal" (fail: process.exit(1)), "uiExists", "nothingToMove", "moved", "threw"
moveSrcToUi(fsys, ds, outcome) ==
    IF ~exists(fsys, ds, SRC) THEN [fs |-> fsys, dirs |-> ds, ret |-> "fatal"]
    ELSE IF exists(fsys, ds, UI) THEN [fs |-> fsys, dirs |-> ds, ret |-> "uiExists"]
    ELSE LET items == Children(fsys, ds, SRC)
         IN  IF ~(\E name \in items : name # "electron")
             THEN [fs |-> fsys, dirs |-> ds, ret |-> "nothingToMove"]
             ELSE LET r == MoveItems(fsys, ensureDir(fsys, ds, UI), items, outcome)
                  IN  [fs |-> r.fs, dirs |-> r.dirs,
                       ret |-> IF r.threw THEN "threw" ELSE "moved"]

\* a variant of main that calls moveSrcToUi without looking for src/ first
mainMoveStepUnguarded(fsys, ds, outcome) == moveSrcToUi(fsys, ds, outcome)

\* main, "Move src to src/ui": the call is guarded by fsSync.existsSync(SRC)
mainMoveStep(fsys, ds, outcome) ==
    IF exists(fsys, ds, SRC)
    THEN moveSrcToUi(fsys, ds, outcome)
    ELSE [fs |-> fsys, dirs |-> ds, ret |-> "noSrcSkipped"]

(***************************************************************************)
(* Step 2 and 4: the generated artifacts.  Their texts are opaque; each is *)
(* named by its constant.                                                  *)
(***************************************************************************)
MAIN_TS_CONTENT == "MAIN_TS_CONTENT"
PRELOAD_TS_CONTENT == "PRELOAD_TS_CONTENT"
TSCONFIG_ELECTRON_CONTENT == "JSON.stringify(TSCONFIG_ELECTRON_CONTENT, null, 2)"
VITE_ELECTRON_CONTENT == "VITE_ELECTRON_CONTENT"
VITE_RENDERER_CONTENT == "VITE_RENDERER_CONTENT"
ELECTRON_BUILDER_YML_CONTENT == "ELECTRON_BUILDER_YML_CONTENT"

(***************************************************************************)
(* Step 3: index.html.  A document is a sequence of tokens [k, v]:         *)
(*   k = "text"  any text that holds no module script tag and no </body>;  *)
(*   k = "ts"    exactly <script type="module" src="v"></script>;          *)
(*   k = "tsx"   a module script tag with type before src in another       *)
(*               spelling (single quotes, more attributes, white space);   *)
(*   k = "st"    a module script tag with src before type;                 *)
(*   k = "body"  the literal </body>.                                      *)
(***************************************************************************)
ENTRY_CANDIDATES ==
    <<"main.tsx", "main.jsx", "index.tsx", "index.jsx", "main.ts", "index.ts", "main.js", "index.js">>

Text(v) == [k |-> "text", v |-> v]
BodyClose == [k |-> "body", v |-> "</body>"]

RECURSIVE detectFrom(_, _, _)
detectFrom(fsys, ds, i) ==
    IF i > Len(ENTRY_CANDIDATES) THEN "main.tsx"
    ELSE IF exists(fsys, ds, UI \o <<ENTRY_CANDIDATES[i]>>) THEN ENTRY_CANDIDATES[i]
    ELSE detectFrom(fsys, ds, i + 1)

detectEntry(fsys, ds) == detectFrom(fsys, ds, 1)

\* `<script type="module" src="/src/ui/${entry}"></script>`
relScript(entry) == [k |-> "ts", v |-> "/src/ui/" \o entry]

\* moduleTagRegex: <script[^>]*type=["']module["'][^>]*src=["'][^"']+["'][^>]*>\s*</script>
\* the type attribute must come before the src attribute, inside one tag
moduleTagRegexMatches(tok) == tok.k \in {"ts", "tsx"}

\* index of the first token satisfying a test; 0 when there is none
FirstMatch(html) ==
    IF \E i \in 1..Len(html) : moduleTagRegexMatches(html[i])
    THEN CHOOSE i \in 1..Len(html) :
            /\ moduleTagRegexMatches(html[i])
            /\ \A j \in 1..(i - 1) : ~moduleTagRegexMatches(html[j])
    ELSE 0

FirstBody(html) ==
    IF \E i \in 1..Len(html) : html[i] = BodyClose
    THEN CHOOSE i \in 1..Len(html) :
            html[i] = BodyClose /\ \A j \in 1..(i - 1) : html[j] # BodyClose
    ELSE 0

\* html.includes(relScript)
Includes(html, tok) == \E i \in 1..Len(html) : html[i] = tok

\* String.prototype.replace with the first occurrence at token i
ReplaceAt(html, i, toks) == SubSeq(html, 1, i - 1) \o toks \o SubSeq(html, i + 1, Len(html))

\* the document patchIndexHtml computes from an existing one (lines 266-275)
patchedHtml(html, entry) ==
    IF FirstMatch(html) # 0
    THEN ReplaceAt(html, FirstMatch(html), <<relScript(entry)>>)
    ELSE IF ~Includes(html, relScript(entry))
         THEN IF FirstBody(html) # 0
              THEN ReplaceAt(html, FirstBody(html),
                             <<Text("  "), relScript(entry), Text("\n"), BodyClose>>)
              ELSE html
         ELSE html

\* the template written when index.html does not exist
templateHtml(entry) ==
    <<Text("<!doctype html>...<div id=\"root\"></div>"), relScript(entry), Text("\n  "),
      BodyClose, Text("\n</html>\n")>>

\* ret: "created" (ok "Created index.html") or "patched" (ok "Patched index.html")
patchIndexHtml(fsys, ds, entry) ==
    IF ~exists(fsys, ds, INDEX_HTML)
    THEN LET w == safeWrite(fsys, ds, INDEX_HTML, templateHtml(entry), FALSE, TRUE)
         IN  [fs |-> w.fs, dirs |-> w.dirs, ret |-> "created"]
    ELSE LET w == safeWrite(fsys, ds, INDEX_HTML, patchedHtml(fsys[INDEX_HTML], entry),
                            TRUE, TRUE)
         IN  [fs |-> w.fs, dirs |-> w.dirs, ret |-> "patched"]

(***************************************************************************)
(* Step 5: package.json.  The text of the file is [fmt, obj]:              *)
(*   fmt = "pretty2"  what JSON.stringify(obj, null, 2) + "\n" produces;   *)
(*   fmt = "other"    another spelling of the same object;                 *)
(*   fmt = "invalid"  not JSON (JSON.parse throws).                        *)
(* obj maps the top-level keys present to their values; scripts,           *)
(* devDependencies and dependencies are maps from names to strings.  The   *)
(* order of keys is not modelled: JSON.parse and JSON.stringify keep it,   *)
(* and the merge only appends keys.                                        *)
(***************************************************************************)
DESIRED_SCRIPTS ==
    << <<"dev:react", "vite">>,
       <<"dev:electron", "electron .">>,
       <<"dev", "concurrently \"npm run dev:react\" \"npm run dev:electron\"">>,
       <<"lint", "eslint .">>,
       <<"preview", "vite preview">>,
       <<"build", "tsc -b && vite build">>,
       <<"electron:tsc", "tsc -p tsconfig.electron.json">>,
       <<"electron:dev", "cross-env NODE_ENV=development npm run electron:tsc && vite --config vite.electron.config.ts">>,
       <<"electron:build", "cross-env NODE_ENV=production npm run electron:tsc && vite build --config vite.renderer.config.ts">>,
       <<"build:electron", "npx electron-builder --config electron-builder.yml --dir">>,
       <<"package", "npx electron-builder --config electron-builder.yml">> >>

DESIRED_DEVDEPS ==
    << <<"cross-env", "^10.0.0">>,
       <<"electron", "^32.1.2">>,
       <<"electron-builder", "^25.0.5">>,
       <<"vite", "^5.4.2">>,
       <<"vite-plugin-electron", "^0.29.0">>,
       <<"vite-plugin-electron-renderer", "^0.14.6">>,
       <<"concurrently", "^8.2.2">>,
       <<"wait-on", "^7.0.1">>,
       <<"typescript", "^5.2.0">> >>

EmptyMap == [x \in {} |-> ""]

Put(m, k, v) == [x \in DOMAIN m \cup {k} |-> IF x = k THEN v ELSE m[x]]

\* !m[k] for a map of strings: the key is missing or its value is the empty string
Falsy(m, k) == k \notin DOMAIN m \/ m[k] = ""

\* `_backup_${k}`
bakKey(k) == "_backup_" \o k

\* a variant that demotes an existing script without comparing it with the desired one
mergeScriptNoComparison(scripts, k, v) ==
    IF Falsy(scripts, k) THEN Put(scripts, k, v)
    ELSE Put(IF Falsy(scripts, bakKey(k))
             THEN Put(scripts, bakKey(k), scripts[k])
             ELSE scripts,
             k, v)

\* one iteration of the scripts loop (lines 427-434)
mergeScript(scripts, k, v) ==
    IF Falsy(scripts, k) THEN Put(scripts, k, v)
    ELSE IF scripts[k] # v
         THEN Put(IF Falsy(scripts, bakKey(k))
                  THEN Put(scripts, bakKey(k), scripts[k])
                  ELSE scripts,
                  k, v)
         ELSE scripts

RECURSIVE mergeScripts(_, _)
mergeScripts(scripts, i) ==
    IF i > Len(DESIRED_SCRIPTS) THEN scripts
    ELSE mergeScripts(mergeScript(scripts, DESIRED_SCRIPTS[i][1], DESIRED_SCRIPTS[i][2]), i + 1)

\* one iteration of the devDependencies loop (lines 440-444)
\* deps is pkg.dependencies; hasDeps says whether pkg.dependencies is there at all
mergeDevDep(dev, hasDeps, deps, dep, ver) ==
    IF Falsy(dev, dep) /\ ~(hasDeps /\ ~Falsy(deps, dep))
    THEN Put(dev, dep, ver)
    ELSE dev

RECURSIVE mergeDevDeps(_, _, _, _)
mergeDevDeps(dev, hasDeps, deps, i) ==
    IF i > Len(DESIRED_DEVDEPS) THEN dev
    ELSE mergeDevDeps(mergeDevDep(dev, hasDeps, deps, DESIRED_DEVDEPS[i][1], DESIRED_DEVDEPS[i][2]),
                      hasDeps, deps, i + 1)

\* pkg.scripts || {}
MapOr(obj, k) == IF k \in DOMAIN obj THEN obj[k] ELSE EmptyMap

\* lines 416-445: the object written back, from the parsed one
mergePkg(obj) ==
    LET o1 == Put(obj, "type", "module")
        o2 == Put(o1, "main", IF Falsy(o1, "main") THEN "src/electron/main" ELSE o1["main"])
        o3 == Put(o2, "scripts", mergeScripts(MapOr(o2, "scripts"), 1))
    IN  Put(o3, "devDependencies",
            mergeDevDeps(MapOr(o3, "devDependencies"), "dependencies" \in DOMAIN o3,
                         MapOr(o3, "dependencies"), 1))

\* JSON.stringify(obj, null, 2) + "\n"
writeJSONText(obj) == [fmt |-> "pretty2", obj |-> obj]

\* p, obj => safeWrite(p, JSON.stringify(obj, null, 2) + "\n", {force: true})
writeJSON(fsys, ds, p, obj) == safeWrite(fsys, ds, p, writeJSONText(obj), TRUE, TRUE)

\* ret: "fatal" (fail: process.exit(1)), "threw" (JSON.parse throws), "updated"
patchPackageJson(fsys, ds) ==
    IF ~exists(fsys, ds, PACKAGE_JSON) THEN [fs |-> fsys, dirs |-> ds, ret |-> "fatal"]
    ELSE LET originalPkg == fsys[PACKAGE_JSON]
             b == safeWrite(fsys, ds, Bak(PACKAGE_JSON), originalPkg, TRUE, TRUE)
         IN  IF originalPkg.fmt = "invalid"
             THEN [fs |-> b.fs, dirs |-> b.dirs, ret |-> "threw"]
             ELSE LET w == writeJSON(b.fs, b.dirs, PACKAGE_JSON, mergePkg(originalPkg.obj))
                  IN  [fs |-> w.fs, dirs |-> w.dirs, ret |-> "updated"]

(***************************************************************************)
(* Step 6: ensurePublicIcons                                               *)
(***************************************************************************)
PNG == "png"

ensurePublicIcons(fsys, ds) ==
    LET ico == PUB \o <<"favicon.ico">>
        png == PUB \o <<"icon.png">>
        f1 == IF ~exists(fsys, ds, ico) THEN WriteFile(fsys, ico, PNG) ELSE fsys
        f2 == IF ~exists(f1, ds, png) THEN WriteFile(f1, png, PNG) ELSE f1
    IN  [fs |-> f2, dirs |-> ensureDir(fsys, ds, PUB)]

(***************************************************************************)
(* The trees a run may start from.                                         *)
(***************************************************************************)
Merge(f, g) == [x \in DOMAIN f \cup DOMAIN g |-> IF x \in DOMAIN g THEN g[x] ELSE f[x]]

NoFiles == [x \in {} |-> ""]

File(p, content) == [x \in {p} |-> content]

\* the directories a set of files needs
DirsOf(files) == UNION { WithAncestors(Dirname(q)) : q \in files }

USER_TEXT == "user text"

\* the six generated artifacts main writes with safeWrite(..., {force: FORCE})
ElectronArtifacts ==
    { [pc |-> "main.ts", path |-> MAIN_TS, content |-> MAIN_TS_CONTENT, next |-> "preload.ts"],
      [pc |-> "preload.ts", path |-> PRELOAD_TS, content |-> PRELOAD_TS_CONTENT, next |-> "index.html"] }

ConfigArtifacts ==
    { [pc |-> "tsconfig", path |-> TSCONFIG_ELECTRON, content |-> TSCONFIG_ELECTRON_CONTENT,
       next |-> "vite.electron"],
      [pc |-> "vite.electron", path |-> VITE_ELECTRON, content |-> VITE_ELECTRON_CONTENT,
       next |-> "vite.renderer"],
      [pc |-> "vite.renderer", path |-> VITE_RENDERER, content |-> VITE_RENDERER_CONTENT,
       next |-> "electron-builder"],
      [pc |-> "electron-builder", path |-> ELECTRON_BUILDER_YML,
       content |-> ELECTRON_BUILDER_YML_CONTENT, next |-> "package.json"] }

Artifacts == ElectronArtifacts \cup ConfigArtifacts

ArtifactPaths == { a.path : a \in Artifacts }

ArtifactContent(p) == (CHOOSE a \in Artifacts : a.path = p).content

\* src/ before the first run: some of these children, or no src/ at all
SrcChildren ==
    { File(SRC \o <<"main.tsx">>, USER_TEXT),
      File(SRC \o <<"components", "B.tsx">>, USER_TEXT),
      File(ELECTRON_DIR \o <<"c.ts">>, USER_TEXT),
      File(UI \o <<"Button.tsx">>, USER_TEXT) }

RECURSIVE MergeAll(_)
MergeAll(fset) ==
    IF fset = {} THEN NoFiles
    ELSE LET f == CHOOSE g \in fset : TRUE IN Merge(MergeAll(fset \ {f}), f)

\* index.html before the first run (run specification)
Doc(tags, withBody) ==
    <<Text("<head/><div id=\"root\"></div>")>> \o tags
        \o (IF withBody THEN <<BodyClose>> ELSE <<>>) \o <<Text("</html>")>>

Tag(k, v) == [k |-> k, v |-> v]

TypicalHtml == File(INDEX_HTML, Doc(<<Tag("ts", "/src/main.tsx")>>, TRUE))

RunHtmls == { TypicalHtml, File(INDEX_HTML, Doc(<<>>, TRUE)), NoFiles }

\* package.json before the first run (run specification)
Obj(name, scripts) == [x \in {"name", "scripts"} |-> IF x = "name" THEN name ELSE scripts]

TypicalPkg ==
    File(PACKAGE_JSON, [fmt |-> "other", obj |-> Obj("app", File("build", "vite build"))])

RunPkgs == { TypicalPkg, File(PACKAGE_JSON, [fmt |-> "invalid", obj |-> EmptyMap]), NoFiles }

TypicalSrc == { File(SRC \o <<"main.tsx">>, USER_TEXT) }

Deviation(cond) == IF cond THEN 1 ELSE 0

NoOp == [op |-> "none", path |-> <<>>, force |-> FALSE, copyOk |-> TRUE, ret |-> "none"]

InitCommon ==
    /\ FORCE = FALSE
    /\ DO_INSTALL = FALSE
    /\ runs = 0
    /\ exitCode = -1
    /\ fs0 = fs
    /\ dirs0 = dirs
    /\ fsPrev = fs
    /\ dirsPrev = dirs
    /\ last = NoOp
    /\ reports = {}
    /\ edits = 0
    /\ prev = [FORCE |-> FALSE, exitCode |-> -1]

\* A fresh Vite + React project has src/main.tsx, an index.html that loads
\* /src/main.tsx and a package.json; the tree the first run starts from differs
\* from it in at most MaxDeviations respects.
Init ==
    /\ \E kids \in SUBSET SrcChildren, srcDir \in BOOLEAN,
          pre \in SUBSET ArtifactPaths, html \in RunHtmls, pkg \in RunPkgs :
          /\ Deviation(kids # TypicalSrc) + Cardinality(pre)
                + Deviation(html # TypicalHtml) + Deviation(pkg # TypicalPkg) <= MaxDeviations
          /\ \E old \in [pre -> {USER_TEXT, "desired"}] :
                fs = Merge(Merge(Merge(MergeAll(kids), html), pkg),
                           [q \in pre |-> IF old[q] = "desired" THEN ArtifactContent(q) ELSE old[q]])
          /\ dirs = DirsOf(DOMAIN fs) \cup (IF srcDir THEN {SRC} ELSE {})
    /\ pc = "init"
    /\ InitCommon

(***************************************************************************)
(* main (Execute), one action per step.  A step that throws, or calls      *)
(* fail, ends the process with status 1.                                   *)
(***************************************************************************)
Step(f, d, next, op, rep) ==
    /\ fsPrev' = fs
    /\ dirsPrev' = dirs
    /\ fs' = f
    /\ dirs' = d
    /\ last' = op
    /\ reports' = reports \cup rep
    /\ pc' = next
    /\ exitCode' = IF next = "done" THEN (IF op.ret \in {"threw", "fatal"} THEN 1 ELSE 0) ELSE exitCode
    /\ UNCHANGED <<FORCE, DO_INSTALL, runs, fs0, dirs0, edits, prev>>

\* a process whose catch block logged the error and went on
AbortNever(ret, next) == next

Abort(ret, next) == IF ret \in {"threw", "fatal"} THEN "done" ELSE next

\* the process starts: ARGV is read
StartRun ==
    /\ pc \in {"init", "done"}
    /\ runs < MaxRuns
    /\ \E f \in BOOLEAN, i \in BOOLEAN : FORCE' = f /\ DO_INSTALL' = i
    /\ runs' = runs + 1
    /\ pc' = "move"
    /\ fs0' = fs
    /\ dirs0' = dirs
    /\ fsPrev' = fs
    /\ dirsPrev' = dirs
    /\ last' = NoOp
    /\ reports' = {}
    /\ exitCode' = -1
    /\ prev' = [FORCE |-> FORCE, exitCode |-> exitCode]
    /\ UNCHANGED <<fs, dirs, edits>>

MoveStep ==
    /\ pc = "move"
    /\ \E outcome \in [Children(fs, dirs, SRC) \ {"electron"} -> Outcomes] :
          LET r == mainMoveStep(fs, dirs, outcome)
          IN  Step(r.fs, r.dirs, Abort(r.ret, "ensureElectronDir"),
                   [NoOp EXCEPT !.op = "moveSrcToUi", !.ret = r.ret], {<<"move", r.ret>>})

EnsureElectronDir ==
    /\ pc = "ensureElectronDir"
    /\ Step(fs, ensureDir(fs, dirs, ELECTRON_DIR), "main.ts",
            [NoOp EXCEPT !.op = "ensureDir", !.path = ELECTRON_DIR, !.ret = "ok"],
            {<<"ensureElectronDir", "ok">>})

\* whether safeWrite(p, content, {force}) gets to call fs.copyFile
CopyAttempted(fsys, p, content, force) == p \in DOMAIN fsys /\ ~force /\ fsys[p] # content

\* last.copyOk records the outcome of fs.copyFile when the call made one
WriteArtifact(a) ==
    /\ pc = a.pc
    /\ \E copyOk \in BOOLEAN :
          /\ CopyAttempted(fs, a.path, a.content, FORCE) \/ copyOk
          /\ LET w == safeWrite(fs, dirs, a.path, a.content, FORCE, copyOk)
             IN  Step(w.fs, w.dirs, a.next,
                      [op |-> "safeWrite", path |-> a.path, force |-> FORCE,
                       copyOk |-> copyOk, ret |-> w.ret],
                      {<<a.pc, w.ret>>})

WriteElectronArtifact == \E a \in ElectronArtifacts : WriteArtifact(a)

WriteConfigArtifact == \E a \in ConfigArtifacts : WriteArtifact(a)

PatchIndexHtmlStep ==
    /\ pc = "index.html"
    /\ LET r == patchIndexHtml(fs, dirs, detectEntry(fs, dirs))
       IN  Step(r.fs, r.dirs, "tsconfig",
                [NoOp EXCEPT !.op = "patchIndexHtml", !.path = INDEX_HTML, !.force = TRUE,
                             !.ret = r.ret],
                {<<"index.html", r.ret>>})

PatchPackageJsonStep ==
    /\ pc = "package.json"
    /\ LET r == patchPackageJson(fs, dirs)
       IN  Step(r.fs, r.dirs, Abort(r.ret, "icons"),
                [NoOp EXCEPT !.op = "patchPackageJson", !.path = PACKAGE_JSON, !.force = TRUE,
                             !.ret = r.ret],
                {<<"package.json", r.ret>>})

EnsurePublicIconsStep ==
    /\ pc = "icons"
    /\ LET r == ensurePublicIcons(fs, dirs)
       IN  Step(r.fs, r.dirs, "install",
                [NoOp EXCEPT !.op = "ensurePublicIcons", !.ret = "ok"], {<<"icons", "ok">>})

\* runNpmInstall rejects when npm exits with a non-zero code
InstallStep ==
    /\ pc = "install"
    /\ \E npmOk \in BOOLEAN :
          LET ret == IF ~DO_INSTALL THEN "skipped" ELSE IF npmOk THEN "installed" ELSE "threw"
          IN  Step(fs, dirs, "done", [NoOp EXCEPT !.op = "runNpmInstall", !.ret = ret],
                   {<<"install", ret>>})

Next ==
    \/ StartRun
    \/ MoveStep
    \/ EnsureElectronDir
    \/ WriteElectronArtifact
    \/ WriteConfigArtifact
    \/ PatchIndexHtmlStep
    \/ PatchPackageJsonStep
    \/ EnsurePublicIconsStep
    \/ InstallStep

Spec == Init /\ [][Next]_vars

(***************************************************************************)
(* patchPackageJson on its own: calls of patchPackageJson on a tree that   *)
(* holds a package.json, with the user editing scripts.build in between.   *)
(***************************************************************************)
DesiredBuild == "tsc -b && vite build"

ScriptMaps ==
    { Merge(b, bb) :
        b \in { EmptyMap, File("build", "A"), File("build", DesiredBuild) },
        bb \in { EmptyMap, File("_backup_build", "Z") } }

PkgObjs ==
    { MergeAll({ File("name", "app"), type, main, scripts, dev, deps }) :
        type \in { EmptyMap, File("type", "commonjs") },
        main \in { EmptyMap, File("main", "index.js"), File("main", "") },
        scripts \in { EmptyMap } \cup { File("scripts", m) : m \in ScriptMaps },
        dev \in { EmptyMap, File("devDependencies", File("vite", "")),
                  File("devDependencies", File("vite", "^4.0.0")) },
        deps \in { EmptyMap, File("dependencies", File("react", "^18.2.0")),
                   File("dependencies", Merge(File("react", "^18.2.0"), File("vite", "^4.0.0"))),
                   File("dependencies", File("vite", "")) } }

InitPkg ==
    /\ \E obj \in PkgObjs, fmt \in {"pretty2", "other"} :
          fs = File(PACKAGE_JSON, [fmt |-> fmt, obj |-> obj])
    /\ dirs = {}
    /\ pc = "pkg"
    /\ InitCommon

Call(f, d, op) ==
    /\ runs < MaxCalls
    /\ runs' = runs + 1
    /\ fsPrev' = fs
    /\ dirsPrev' = dirs
    /\ fs' = f
    /\ dirs' = d
    /\ last' = op
    /\ UNCHANGED <<pc, FORCE, DO_INSTALL, exitCode, fs0, dirs0, reports, edits, prev>>

UserEdit(f, d) ==
    /\ edits < MaxEdits
    /\ edits' = edits + 1
    /\ fsPrev' = fs
    /\ dirsPrev' = dirs
    /\ fs' = f
    /\ dirs' = d
    /\ last' = [NoOp EXCEPT !.op = "userEdit"]
    /\ UNCHANGED <<pc, FORCE, DO_INSTALL, runs, exitCode, fs0, dirs0, reports, prev>>

PatchPackageJsonCall ==
    /\ pc = "pkg"
    /\ LET r == patchPackageJson(fs, dirs)
       IN  Call(r.fs, r.dirs,
                [NoOp EXCEPT !.op = "patchPackageJson", !.path = PACKAGE_JSON, !.force = TRUE,
                             !.ret = r.ret])

\* the user rewrites scripts.build by hand, to another command or to nothing
UserEditsBuildScript ==
    /\ pc = "pkg"
    /\ \E v \in {"C", ""} :
          LET text == fs[PACKAGE_JSON]
              obj == Put(text.obj, "scripts", Put(MapOr(text.obj, "scripts"), "build", v))
          IN  UserEdit(WriteFile(fs, PACKAGE_JSON, [text EXCEPT !.obj = obj]), dirs)

NextPkg == PatchPackageJsonCall \/ UserEditsBuildScript

SpecPkg == InitPkg /\ [][NextPkg]_vars

(***************************************************************************)
(* patchIndexHtml on its own: calls of detectEntry and patchIndexHtml on a *)
(* tree that holds an index.html and src/ui, with the user adding an entry *)
(* file in between.                                                        *)
(***************************************************************************)
TagPool ==
    { Tag("ts", "/old/entry.js"), Tag("tsx", "/src/main.tsx"), Tag("st", "/src/main.tsx"),
      Tag("ts", "/src/ui/main.tsx") }

TagSeqs == UNION { [1..n -> TagPool] : n \in 0..MaxTags }

HtmlDocs == { Doc(tags, withBody) : tags \in TagSeqs, withBody \in BOOLEAN }

InitHtml ==
    /\ \E html \in { File(INDEX_HTML, h) : h \in HtmlDocs } \cup {NoFiles},
          entry \in { NoFiles, File(UI \o <<"index.js">>, USER_TEXT) } :
          fs = Merge(html, entry)
    /\ dirs = {SRC, UI}
    /\ pc = "html"
    /\ InitCommon

PatchIndexHtmlCall ==
    /\ pc = "html"
    /\ LET r == patchIndexHtml(fs, dirs, detectEntry(fs, dirs))
       IN  Call(r.fs, r.dirs,
                [NoOp EXCEPT !.op = "patchIndexHtml", !.path = INDEX_HTML, !.force = TRUE,
                             !.ret = r.ret])

\* the user adds a file that detectEntry prefers
UserAddsEntry ==
    /\ pc = "html"
    /\ \E name \in {"main.jsx", "index.js"} :
          /\ UI \o <<name>> \notin DOMAIN fs
          /\ UserEdit(WriteFile(fs, UI \o <<name>>, USER_TEXT), dirs)

NextHtml == PatchIndexHtmlCall \/ UserAddsEntry

SpecHtml == InitHtml /\ [][NextHtml]_vars

(***************************************************************************)
(* Properties of a run (specification Spec).                               *)
(***************************************************************************)
\* the files whose content a run may change
Watched == ArtifactPaths \cup {INDEX_HTML, PACKAGE_JSON}

BackedUp(before, after, p) == Bak(p) \in DOMAIN after /\ after[Bak(p)] = before[p]

\* C1: at the end of every run, every watched file that existed before the run
\* and whose content the run changed has a sibling .bak-electronize file holding
\* the content the file had before the run.
C1_NoOverwriteWithoutBackup ==
    pc = "done" =>
        \A p \in Watched :
            (p \in DOMAIN fs0 /\ p \in DOMAIN fs /\ fs[p] # fs0[p]) => BackedUp(fs0, fs, p)

\* C2: a forced safeWrite on an existing path copies the existing file to the
\* backup path and rewrites the path: afterwards the path holds the content and
\* the backup file holds what the path held before the call.
C2_ForcedWriteBacksUp ==
    (last.op = "safeWrite" /\ last.force /\ last.path \in DOMAIN fsPrev) =>
        /\ last.ret = "wrote"
        /\ fs[last.path] = ArtifactContent(last.path)
        /\ BackedUp(fsPrev, fs, last.path)

\* the last operation was a non-forced safeWrite on an existing path
NonForcedOnExisting ==
    last.op = "safeWrite" /\ ~last.force /\ last.path \in DOMAIN fsPrev

Differs == fsPrev[last.path] # ArtifactContent(last.path)

BakUntouched ==
    /\ Bak(last.path) \in DOMAIN fs <=> Bak(last.path) \in DOMAIN fsPrev
    /\ Bak(last.path) \in DOMAIN fs => fs[Bak(last.path)] = fsPrev[Bak(last.path)]

SameFiles(f, g) == DOMAIN f = DOMAIN g /\ \A q \in DOMAIN f : f[q] = g[q]

\* C4: a second run without --force, right after a first run without --force
\* that completed, changes the content of no file in the tree and reports every
\* generated artifact as unchanged.
C4_SecondRunChangesNothing ==
    (pc = "done" /\ runs >= 2 /\ ~FORCE /\ exitCode = 0
        /\ ~prev.FORCE /\ prev.exitCode = 0) =>
        /\ SameFiles(fs, fs0)
        /\ \A a \in Artifacts : <<a.pc, "unchanged">> \in reports

\* the current run is a completed run without --force that followed a completed
\* run without --force
SecondPlainRunDone ==
    /\ pc = "done" /\ runs >= 2
    /\ ~FORCE /\ exitCode = 0
    /\ ~prev.FORCE /\ prev.exitCode = 0

\* C4 amended: such a second run changes the content of no file in the tree
\* except package.json.bak-electronize, which it rewrites with the manifest the
\* first run left, and it creates and removes no file; every generated artifact
\* is reported as unchanged.
C4_SecondRunChangesOnlyManifestBackup ==
    SecondPlainRunDone =>
        /\ DOMAIN fs = DOMAIN fs0
        /\ \A q \in DOMAIN fs \ {Bak(PACKAGE_JSON)} : fs[q] = fs0[q]
        /\ fs[Bak(PACKAGE_JSON)] = fs0[PACKAGE_JSON]
        /\ \A a \in Artifacts : <<a.pc, "unchanged">> \in reports

C4_Witness ==
    /\ SecondPlainRunDone
    /\ fs[Bak(PACKAGE_JSON)] # fs0[Bak(PACKAGE_JSON)]
    /\ fs[INDEX_HTML] = fs0[INDEX_HTML]

\* the tree below base in (f, d), as relative paths
FilesBelow(f, base) == { q \in DOMAIN f : IsPrefix(base, q) }

SameTree(f, d, base, g, e, gbase) ==
    /\ { Rebase(base, gbase, q) : q \in FilesBelow(f, base) } = FilesBelow(g, gbase)
    /\ \A q \in FilesBelow(f, base) : g[Rebase(base, gbase, q)] = f[q]
    /\ { Rebase(base, gbase, q) : q \in { r \in d : IsPrefix(base, r) } }
            = { r \in e : IsPrefix(gbase, r) }

MoveReturned == last.op = "moveSrcToUi" /\ last.ret \in {"uiExists", "nothingToMove", "moved"}

Relocated ==
    /\ \A name \in Children(fsPrev, dirsPrev, SRC) \ {"electron"} :
            /\ SameTree(fsPrev, dirsPrev, SRC \o <<name>>, fs, dirs, UI \o <<name>>)
            /\ ~exists(fs, dirs, SRC \o <<name>>)
    /\ SameTree(fsPrev, dirsPrev, ELECTRON_DIR, fs, dirs, ELECTRON_DIR)

\* C8 as stated: after every call of moveSrcToUi that returns normally, every
\* immediate child of src/ other than electron that was there before the call
\* is under src/ui/, and src/electron is where and what it was.
C8_RelocationComplete == MoveReturned => Relocated

\* C8 amended: the same, for every call that returns normally and did not find
\* src/ui already there; a call that finds src/ui there moves nothing and
\* leaves the tree as it was.
C8_RelocationCompleteUnlessUiExists ==
    MoveReturned =>
        IF last.ret = "uiExists"
        THEN SameFiles(fs, fsPrev) /\ dirs = dirsPrev /\ UI \in dirsPrev
        ELSE Relocated /\ UI \notin dirsPrev

C8_Witness ==
    /\ last.op = "moveSrcToUi"
    /\ last.ret = "moved"
    /\ SRC \o <<"components", "B.tsx">> \in DOMAIN fsPrev
    /\ UI \o <<"components", "B.tsx">> \in DOMAIN fs
    /\ ELECTRON_DIR \o <<"c.ts">> \in DOMAIN fs

\* the current run started in a tree without src/
StartedWithoutSrc == runs >= 1 /\ pc # "init" /\ ~exists(fs0, dirs0, SRC)

\* C10 as stated: a run started without src/ aborts at once with a non-zero
\* exit status and performs none of the later steps.
C10_MissingSrcIsFatal ==
    (StartedWithoutSrc /\ pc # "move") =>
        /\ pc = "done"
        /\ exitCode = 1
        /\ SameFiles(fs, fs0)
        /\ dirs = dirs0

\* C10 amended: a missing src/ is fatal only inside moveSrcToUi, which main
\* calls only when src/ exists: a run started without src/ skips the move,
\* leaves the tree as it was in that step, and goes on to the later steps,
\* so that when the process ends src/electron and its two files, index.html
\* and the four configuration files are there.
C10_MissingSrcSkipsMove ==
    StartedWithoutSrc =>
        /\ <<"move", "fatal">> \notin reports
        /\ (last.op = "moveSrcToUi") =>
                /\ last.ret = "noSrcSkipped"
                /\ pc = "ensureElectronDir"
                /\ SameFiles(fs, fsPrev)
                /\ dirs = dirsPrev
        /\ (pc = "done") =>
                /\ ELECTRON_DIR \in dirs
                /\ ArtifactPaths \cup {INDEX_HTML} \subseteq DOMAIN fs

C10_Witness ==
    /\ StartedWithoutSrc
    /\ pc = "done"
    /\ exitCode = 0
    /\ MAIN_TS \in DOMAIN fs

\* the steps of main, in the order the claim gives them
StepOrder ==
    <<"move", "ensureElectronDir", "main.ts", "preload.ts", "index.html", "tsconfig",
      "vite.electron", "vite.renderer", "electron-builder", "package.json", "icons", "install">>

Position(s) == CHOOSE i \in 1..Len(StepOrder) : StepOrder[i] = s

StepsBefore(s) == { StepOrder[i] : i \in 1..(Position(s) - 1) }

\* the steps of the current run that executed, and those among them that failed
Executed == { r[1] : r \in reports }

Failed == { r[1] : r \in { x \in reports : x[2] \in {"threw", "fatal"} } }

\* npm install was spawned in the current run
InstallStarted == <<"install", "installed">> \in reports \/ <<"install", "threw">> \in reports

Merged == last.op = "patchPackageJson" /\ last.ret = "updated"

ScriptsBefore == MapOr(fsPrev[PACKAGE_JSON].obj, "scripts")
ScriptsAfter == MapOr(fs[PACKAGE_JSON].obj, "scripts")
DevBefore == MapOr(fsPrev[PACKAGE_JSON].obj, "devDependencies")
DevAfter == MapOr(fs[PACKAGE_JSON].obj, "devDependencies")
DepsBefore == MapOr(fsPrev[PACKAGE_JSON].obj, "dependencies")
DepsAfter == MapOr(fs[PACKAGE_JSON].obj, "dependencies")

Holds(m, k, v) == k \in DOMAIN m /\ m[k] = v

\* C5: after every merge, for every desired script name k whose value v before
\* the merge differs from the desired value d, scripts[k] = d and
\* scripts["_backup_" + k] = v.
C5_ConflictsPreserved ==
    Merged =>
        \A i \in 1..Len(DESIRED_SCRIPTS) :
            LET k == DESIRED_SCRIPTS[i][1]
                d == DESIRED_SCRIPTS[i][2]
            IN  (k \in DOMAIN ScriptsBefore /\ ScriptsBefore[k] # d) =>
                    /\ Holds(ScriptsAfter, k, d)
                    /\ Holds(ScriptsAfter, bakKey(k), ScriptsBefore[k])

\* C6: after a merge, an existing script k with value A different from the
\* desired B and with no key "_backup_" + k before has scripts[k] = B and
\* scripts["_backup_" + k] = A; a demoted key that was there keeps its value;
\* and merging the result again changes nothing.
C6_DemotionDeterministic ==
    Merged =>
        /\ \A i \in 1..Len(DESIRED_SCRIPTS) :
              LET k == DESIRED_SCRIPTS[i][1]
                  d == DESIRED_SCRIPTS[i][2]
              IN  /\ (k \in DOMAIN ScriptsBefore /\ ScriptsBefore[k] # d
                         /\ bakKey(k) \notin DOMAIN ScriptsBefore) =>
                          /\ Holds(ScriptsAfter, k, d)
                          /\ Holds(ScriptsAfter, bakKey(k), ScriptsBefore[k])
                  /\ bakKey(k) \in DOMAIN ScriptsBefore =>
                          Holds(ScriptsAfter, bakKey(k), ScriptsBefore[bakKey(k)])
        /\ mergeScripts(ScriptsAfter, 1) = ScriptsAfter

\* C7: after a merge, every desired package that was declared in
\* devDependencies or in dependencies before has that declaration unchanged and
\* is not added to the other map; a desired package is in devDependencies with
\* the desired version when it was in neither map.
C7_KeepExisting ==
    Merged =>
        \A i \in 1..Len(DESIRED_DEVDEPS) :
            LET dep == DESIRED_DEVDEPS[i][1]
                ver == DESIRED_DEVDEPS[i][2]
            IN  /\ dep \in DOMAIN DevBefore => Holds(DevAfter, dep, DevBefore[dep])
                /\ dep \in DOMAIN DepsBefore =>
                        /\ Holds(DepsAfter, dep, DepsBefore[dep])
                        /\ dep \notin DOMAIN DevBefore => dep \notin DOMAIN DevAfter
                /\ (dep \notin DOMAIN DevBefore /\ dep \notin DOMAIN DepsBefore) =>
                        Holds(DevAfter, dep, ver)
                /\ dep \in DOMAIN DevAfter =>
                        \/ dep \in DOMAIN DevBefore
                        \/ dep \notin DOMAIN DepsBefore

(***************************************************************************)
(* Properties of patchIndexHtml (specification SpecHtml).                  *)
(***************************************************************************)
IsModuleTag(tok) == tok.k \in {"ts", "tsx", "st"}

ModuleTags(html) == { i \in 1..Len(html) : IsModuleTag(html[i]) }

\* the document without its module script tags
RECURSIVE OtherText(_)
OtherText(html) ==
    IF html = <<>> THEN <<>>
    ELSE (IF IsModuleTag(Head(html)) THEN <<>> ELSE <<Head(html)>>) \o OtherText(Tail(html))

\* C9: patching an existing index.html that holds exactly one module script tag
\* toward entry e yields a document with exactly one module script tag, the tag
\* for /src/ui/e, with all other text unchanged; patching the result again
\* with the same e leaves it as it is.
C9_AnchorPatchIdempotent ==
    (last.op = "patchIndexHtml" /\ INDEX_HTML \in DOMAIN fsPrev
        /\ Cardinality(ModuleTags(fsPrev[INDEX_HTML])) = 1) =>
        LET e == detectEntry(fsPrev, dirsPrev)
            html == fs[INDEX_HTML]
        IN  /\ Cardinality(ModuleTags(html)) = 1
            /\ \A i \in ModuleTags(html) : html[i] = relScript(e)
            /\ OtherText(html) = OtherText(fsPrev[INDEX_HTML])
            /\ patchedHtml(html, e) = html

\* C12: whenever patchIndexHtml(entry) completes and reports the document as
\* patched, for any existing index.html (with or without a module script
\* tag, with or without a closing </body> marker), the document on disk
\* contains the tag <script type="module" src="/src/ui/<entry>"></script>.
C12_PatchedContainsTag ==
    (last.op = "patchIndexHtml" /\ last.ret = "patched") =>
        Includes(fs[INDEX_HTML], relScript(detectEntry(fsPrev, dirsPrev)))

====
